---- MODULE Spec2Model ----
(***************************************************************************)
(* Model of the outline/character consistency engine of app.py:            *)
(* OutlineReviewer, CharacterManager and the NovelWriter loops that drive  *)
(* them (write_chapter_with_revisions, generate_chapter_outline,           *)
(* write_novel and its restart on the files of novel_output).              *)
(*                                                                         *)
(* Texts are sequences of tokens.  A text stands for the string obtained   *)
(* by joining its tokens with one blank; the token NL is a line break with *)
(* no blank around it and the token QUOTE is a double quote.  The language *)
(* model is an opaque source of texts: every call to it is a               *)
(* nondeterministic choice.                                                *)
(***************************************************************************)
EXTENDS Integers, Sequences, FiniteSets, TLC

(***************************************************************************)
(* Bounds                                                                  *)
(***************************************************************************)
\* Stands for the module-level num_chapters (15 in app.py:18).
num_chapters == 3

Chapters == 1..num_chapters

\* Largest max_revisions a NovelWriter is built with (2 by default, 3 in main).
MaxRevisions == 3

VARIABLES
    outlines,   \* OutlineReviewer.outlines: chapter number -> outline text
    titles,     \* OutlineReviewer.titles: the set of registered titles
    call,       \* the last call made on the reviewer or the character
                \* manager, its arguments and what it returned
    review,     \* the review dict review_outline returned, or what it raised
    characters, \* CharacterManager.characters: lower-cased name -> Character
    mentions,   \* CharacterManager.mentions: chapter -> name -> count
    max_revisions,  \* NovelWriter.max_revisions
    pc,         \* where the NovelWriter method in progress stands
    frame,      \* the arguments and local variables of that method
    writes,     \* the write_chapter calls made, oldest first
    reviews,    \* the review_chapter calls made, oldest first
    novel,      \* write_novel: the novel dict
    progress_file,  \* novel_output/novel_progress.json
    error,      \* the exception that ended the method, if any
    character_file, \* novel_output/characters.json
    outline_files,  \* novel_output/outline_chapter_N.txt: N -> text
    outline_only,   \* the module-level flag outline_only
    run         \* where write_novel stands, and what the run has done

reviewerVars == <<outlines, titles>>

characterVars == <<characters, mentions>>

writerVars ==
    <<max_revisions, pc, frame, writes, reviews, novel, progress_file, error>>

pipelineVars == <<character_file, outline_files, outline_only, run>>

vars ==
    <<outlines, titles, call, review, characters, mentions, max_revisions, pc,
      frame, writes, reviews, novel, progress_file, error, character_file,
      outline_files, outline_only, run>>

(***************************************************************************)
(* Tokens and the string functions the program applies to them             *)
(***************************************************************************)
TITLE == "Title:"
QUOTE == "<quote>"
CHAPTER == "Chapter 1:"
HASH == "#"
NL == "<newline>"

\* str.lower on one token
lower(tok) ==
    CASE tok = "Title:" -> "title:"
      [] tok = "Chapter 1:" -> "chapter 1:"
      [] tok \in {"The", "THE"} -> "the"
      [] tok \in {"Storm", "STORM"} -> "storm"
      [] tok = "Storms" -> "storms"
      [] tok = "River" -> "river"
      [] tok = "Forest" -> "forest"
      [] tok = "X" -> "x"
      [] tok \in {"Ann", "ANN"} -> "ann"
      [] tok = "Bob" -> "bob"
      [] tok = "Joanna" -> "joanna"
      [] tok = "Poor" -> "poor"
      [] tok = "Good" -> "good"
      [] tok = "Excellent" -> "excellent"
      [] tok = "OUTSTANDING" -> "outstanding"
      [] OTHER -> tok

\* str.lower on a text
LowerText(text) == [i \in 1..Len(text) |-> lower(text[i])]

\* nltk word_tokenize on one (lower-cased) token: punctuation is split off,
\* white space yields nothing
word_tokenize(tok) ==
    CASE tok = "title:" -> <<"title", ":">>
      [] tok = "chapter 1:" -> <<"chapter", "1", ":">>
      [] tok = QUOTE -> <<"<q>">>
      [] tok = NL -> <<>>
      [] OTHER -> <<tok>>

\* str.isalpha on a word_tokenize token
isalpha(w) == w \notin {":", "1", "<q>", "#"}

\* nltk stopwords.words(english), restricted to the words of the alphabet
stop_words == {"the"}

\* PorterStemmer.stem on the words of the alphabet
stem(w) ==
    CASE w = "title" -> "titl"
      [] w = "storms" -> "storm"
      [] OTHER -> w

RECURSIVE Flatten(_)
Flatten(ss) == IF ss = <<>> THEN <<>> ELSE Head(ss) \o Flatten(Tail(ss))

\* OutlineReviewer._preprocess: the stems of the alphabetic, non-stop-word
\* tokens of the lower-cased text, in order
_preprocess(text) ==
    LET toks == Flatten([i \in 1..Len(text) |-> word_tokenize(lower(text[i]))])
        kept == SelectSeq(toks, LAMBDA w : isalpha(w) /\ w \notin stop_words)
    IN  [i \in 1..Len(kept) |-> stem(kept[i])]

\* TfidfVectorizer's analyzer (token_pattern \b\w\w+\b): stems of a single
\* letter are not terms
build_analyzer(doc) == SelectSeq(doc, LAMBDA w : w \notin {"x"})

\* term frequency of stem w in a preprocessed document
Count(doc, w) == Cardinality({i \in 1..Len(doc) : doc[i] = w})

Range(s) == {s[i] : i \in 1..Len(s)}

\* sum over the stems w of W of Count(d1, w) * Count(d2, w)
RECURSIVE Dot(_, _, _)
Dot(d1, d2, W) ==
    IF W = {} THEN 0
    ELSE LET w == CHOOSE x \in W : TRUE
         IN  Count(d1, w) * Count(d2, w) + Dot(d1, d2, W \ {w})

\* TfidfVectorizer (smooth idf, n = 2 documents): a term of both documents
\* has idf ln(3/3) + 1 = 1, a term of one document has idf ln(3/2) + 1, whose
\* square 1.97533 is taken as IdfNum / IdfDen
IdfNum == 79

IdfDen == 40

\* squared l2 norm of the tf-idf vector of doc in the corpus {doc, other},
\* times IdfDen
Norm2(doc, other) ==
    LET shared == Range(doc) \cap Range(other)
        own == Range(doc) \ Range(other)
    IN  IdfDen * Dot(doc, doc, shared) + IdfNum * Dot(doc, doc, own)

\* the score without the division by the two norms
_calculate_similarity_unnormalised(text1, text2) ==
    LET d1 == build_analyzer(_preprocess(text1))
        d2 == build_analyzer(_preprocess(text2))
        dot == Dot(d1, d2, Range(d1) \cap Range(d2))
    IN  IF d1 = <<>> /\ d2 = <<>>
        THEN [error |-> "ValueError", num |-> 0, den |-> 1]
        ELSE [error |-> "", num |-> dot * dot, den |-> 1]

\* OutlineReviewer._calculate_similarity: the cosine of the two tf-idf
\* vectors, returned as its square num / den (the cosine is never negative).
\* fit_transform raises ValueError (empty vocabulary) when neither document
\* has a term; cosine_similarity gives 0 for a zero vector.
_calculate_similarity(text1, text2) ==
    LET d1 == build_analyzer(_preprocess(text1))
        d2 == build_analyzer(_preprocess(text2))
        dot == Dot(d1, d2, Range(d1) \cap Range(d2))
    IN  IF d1 = <<>> /\ d2 = <<>>
        THEN [error |-> "ValueError", num |-> 0, den |-> 1]
        ELSE IF d1 = <<>> \/ d2 = <<>>
        THEN [error |-> "", num |-> 0, den |-> 1]
        ELSE [error |-> "",
              num |-> dot * dot * IdfDen * IdfDen,
              den |-> Norm2(d1, d2) * Norm2(d2, d1)]

(***************************************************************************)
(* extract_title: four regular expressions tried in order with re.search   *)
(***************************************************************************)
\* \s* after position i: the first position >= i that is not a line break
RECURSIVE SkipSpace(_, _)
SkipSpace(text, i) ==
    IF i <= Len(text) /\ text[i] = NL THEN SkipSpace(text, i + 1) ELSE i

\* (.+) from position j: the last position of the line of j
RECURSIVE LineEnd(_, _)
LineEnd(text, j) ==
    IF j < Len(text) /\ text[j + 1] # NL THEN LineEnd(text, j + 1) ELSE j

\* str.strip: line breaks at both ends go
RECURSIVE strip(_)
strip(s) ==
    IF s = <<>> THEN s
    ELSE IF Head(s) = NL THEN strip(Tail(s))
    ELSE IF s[Len(s)] = NL THEN strip(SubSeq(s, 1, Len(s) - 1))
    ELSE s

NoMatch == [found |-> FALSE, group |-> <<>>]

\* Title:\s*"([^"]+)" matched at position i
MatchQuoted(text, i) ==
    LET j == SkipSpace(text, i + 1)
        closing == {k \in (j + 1)..Len(text) : text[k] = QUOTE}
    IN  IF text[i] = TITLE /\ j <= Len(text) /\ text[j] = QUOTE /\ closing # {}
        THEN LET k == CHOOSE c \in closing : \A d \in closing : c <= d
             IN  [found |-> TRUE, group |-> SubSeq(text, j + 1, k - 1)]
        ELSE NoMatch

\* marker\s*(.+)(?:\n|$) matched at position i, for the markers Title: ,
\* Chapter N: and #
MatchLine(marker, text, i) ==
    LET j == SkipSpace(text, i + 1)
    IN  IF text[i] = marker /\ j <= Len(text)
        THEN [found |-> TRUE, group |-> SubSeq(text, j, LineEnd(text, j))]
        ELSE NoMatch

\* the list with the unquoted Title: pattern ahead of the quoted one
title_patterns_unquoted_first ==
    <<"Title:", "quoted Title:", "Chapter N:", "#">>

\* title_patterns, in the order of the list
title_patterns == <<"quoted Title:", "Title:", "Chapter N:", "#">>

\* the pattern matched at position i
MatchAt(pattern, text, i) ==
    CASE pattern = "quoted Title:" -> MatchQuoted(text, i)
      [] pattern = "Title:" -> MatchLine(TITLE, text, i)
      [] pattern = "Chapter N:" -> MatchLine(CHAPTER, text, i)
      [] pattern = "#" -> MatchLine(HASH, text, i)

\* re.search: the match at the leftmost position where the pattern matches
search(pattern, text) ==
    LET hits == {i \in 1..Len(text) : MatchAt(pattern, text, i).found}
    IN  IF hits = {} THEN NoMatch
        ELSE MatchAt(pattern, text, CHOOSE i \in hits : \A h \in hits : i <= h)

\* the loop over title_patterns from the n-th pattern on
RECURSIVE FirstMatch(_, _)
FirstMatch(outline, n) ==
    IF n > Len(title_patterns) THEN <<>>
    ELSE LET match == search(title_patterns[n], outline)
         IN  IF match.found THEN strip(match.group)
             ELSE FirstMatch(outline, n + 1)

\* OutlineReviewer.extract_title: the stripped group of the first pattern
\* that matches, the empty string when none does
extract_title(outline) == FirstMatch(outline, 1)

(***************************************************************************)
(* The outline texts the reviewer is given                                 *)
(***************************************************************************)
\* Title: "The Storm" / River
StormOutline == <<TITLE, QUOTE, "The", "Storm", QUOTE, NL, "River">>

\* Title: "THE STORM" / Forest Forest   (the same title in another case)
ShoutedOutline == <<TITLE, QUOTE, "THE", "STORM", QUOTE, NL, "Forest", "Forest">>

\* Storm River   (no title; similarity 0.709 to StormOutline)
PlainOutline == <<"Storm", "River">>

\* # Storm   (similarity 0.58 to PlainOutline, 0.45 to StormOutline)
HashOutline == <<HASH, "Storm">>

\* The X   (a stop word and a single letter: the vectorizer finds no term)
TermlessOutline == <<"The", "X">>

Outlines ==
    {StormOutline, ShoutedOutline, PlainOutline, HashOutline, TermlessOutline}

\* extract_title, and _calculate_similarity as validate_outline calls it (on
\* the lower-cased texts), tabulated over the outline texts
TitleOf == [o \in Outlines |-> extract_title(o)]

SimilarityOf ==
    [a \in Outlines, b \in Outlines |->
        _calculate_similarity(LowerText(a), LowerText(b))]

\* similarity > 0.7, on the squares: num / den > 49 / 100
ThresholdNum == 49

ThresholdDen == 100

\* the comparison with the threshold 0.8 in place of 0.7
TooSimilar_threshold80(sim) == 100 * sim.num > 64 * sim.den

TooSimilar(sim) == ThresholdDen * sim.num > ThresholdNum * sim.den

\* validate_outline with the final return moved into the loop: only one of
\* the stored outlines is compared
validate_outline_first_only(outline, previous_outlines) ==
    LET sims == {SimilarityOf[outline, p] : p \in previous_outlines}
        first == SimilarityOf[outline, CHOOSE p \in previous_outlines : TRUE]
    IN  IF previous_outlines = {} THEN [error |-> "", unique |-> TRUE]
        ELSE IF first.error # "" THEN [error |-> "ValueError", unique |-> FALSE]
        ELSE [error |-> "", unique |-> ~TooSimilar(first)]

\* OutlineReviewer.validate_outline over the stored outlines.  The loop
\* raises only for an outline without terms, and then no earlier iteration
\* returns (its similarity to any other outline is 0), so the order of the
\* stored outlines does not matter.
validate_outline(outline, previous_outlines) ==
    LET sims == {SimilarityOf[outline, p] : p \in previous_outlines}
    IN  IF previous_outlines = {} THEN [error |-> "", unique |-> TRUE]
        ELSE IF \E s \in sims : s.error # ""
        THEN [error |-> "ValueError", unique |-> FALSE]
        ELSE [error |-> "", unique |-> \A s \in sims : ~TooSimilar(s)]

(***************************************************************************)
(* OutlineReviewer                                                         *)
(***************************************************************************)
\* dict assignment d[k] = v
Put(d, k, v) == [x \in DOMAIN d \cup {k} |-> IF x = k THEN v ELSE d[x]]

\* list(self.outlines.values())
Values(d) == {d[k] : k \in DOMAIN d}

NoReview ==
    [error |-> "", is_valid |-> FALSE, title_unique |-> FALSE,
     outline_unique |-> FALSE, issues |-> <<>>]

\* check_title_uniqueness without the two lower() calls
check_title_uniqueness_case_sensitive(title, registered) ==
    title \notin registered

\* OutlineReviewer.check_title_uniqueness
check_title_uniqueness(title, registered) ==
    LowerText(title) \notin {LowerText(t) : t \in registered}

\* the review dict with no issue appended for a similar outline
ReviewOf_without_outline_issue(outline, stored, registered) ==
    LET title == TitleOf[outline]
        title_unique ==
            IF title # <<>> THEN check_title_uniqueness(title, registered)
            ELSE TRUE
        v == validate_outline(outline, Values(stored))
        issues == IF title_unique THEN <<>> ELSE <<"title">>
    IN  IF v.error # ""
        THEN [NoReview EXCEPT !.error = v.error]
        ELSE [error |-> "", is_valid |-> issues = <<>>,
              title_unique |-> title_unique, outline_unique |-> v.unique,
              issues |-> issues]

\* the review dict review_outline builds from the state it is called in
ReviewOf(outline, stored, registered) ==
    LET title == TitleOf[outline]
        title_unique ==
            IF title # <<>> THEN check_title_uniqueness(title, registered)
            ELSE TRUE
        v == validate_outline(outline, Values(stored))
        issues == (IF title_unique THEN <<>> ELSE <<"title">>)
                  \o (IF v.unique THEN <<>> ELSE <<"outline">>)
    IN  IF v.error # ""
        THEN [NoReview EXCEPT !.error = v.error]
        ELSE [error |-> "", is_valid |-> issues = <<>>,
              title_unique |-> title_unique, outline_unique |-> v.unique,
              issues |-> issues]

\* review_outline storing the outline and its title before looking at the
\* issues
review_outline_always_commits(outline, chapter_num) ==
    LET r == ReviewOf(outline, outlines, titles)
        title == TitleOf[outline]
    IN  /\ review' = r
        /\ IF r.error = ""
           THEN /\ outlines' = Put(outlines, chapter_num, outline)
                /\ titles' = IF title # <<>> THEN titles \cup {title} ELSE titles
           ELSE UNCHANGED reviewerVars

\* OutlineReviewer.review_outline: its effect on the reviewer
review_outline(outline, chapter_num) ==
    LET r == ReviewOf(outline, outlines, titles)
        title == TitleOf[outline]
    IN  /\ review' = r
        /\ IF r.error = "" /\ r.issues = <<>>
           THEN /\ outlines' = Put(outlines, chapter_num, outline)
                /\ titles' = IF title # <<>> THEN titles \cup {title} ELSE titles
           ELSE UNCHANGED reviewerVars

\* add_existing_outline registering the title alone
add_existing_outline_title_only(outline, chapter_num) ==
    LET title == TitleOf[outline]
    IN  /\ outlines' = outlines
        /\ titles' = IF title # <<>> THEN titles \cup {title} ELSE titles

\* OutlineReviewer.add_existing_outline
add_existing_outline(outline, chapter_num) ==
    LET title == TitleOf[outline]
    IN  /\ outlines' = Put(outlines, chapter_num, outline)
        /\ titles' = IF title # <<>> THEN titles \cup {title} ELSE titles

(***************************************************************************)
(* CharacterManager                                                        *)
(***************************************************************************)
\* The values of first_appearance and last_appearance: the integer v, the
\* decimal string of v, or a string that is not a number
IntValue(v) == [t |-> "int", v |-> v]

StrValue(v) == [t |-> "str", v |-> v]

NotANumber == [t |-> "text", v |-> 0]

\* Python truth value: 0 is false, every string of the model is non-empty
Truthy(x) == IF x.t = "int" THEN x.v # 0 ELSE TRUE

\* Character(name, ..., first_appearance, last_appearance, ...); the other
\* fields are carried along and never read by the engine
Character(name, first_appearance, last_appearance) ==
    [name |-> name, first_appearance |-> first_appearance,
     last_appearance |-> last_appearance]

\* add_character resetting first_appearance alone
add_character_first_only(chars, character) ==
    LET stored ==
            IF character.first_appearance.t = "text"
            THEN [character EXCEPT !.first_appearance = IntValue(0)]
            ELSE character
    IN  Put(chars, lower(character.name), stored)

\* add_character keyed by the name as given
add_character_case_sensitive(chars, character) ==
    LET stored ==
            IF character.first_appearance.t = "text"
            THEN [character EXCEPT !.first_appearance = IntValue(0),
                                   !.last_appearance = IntValue(0)]
            ELSE character
    IN  Put(chars, character.name, stored)

\* CharacterManager.add_character: int() of a string that is not a number
\* raises ValueError, and both appearance fields become 0
add_character(chars, character) ==
    LET stored ==
            IF character.first_appearance.t = "text"
            THEN [character EXCEPT !.first_appearance = IntValue(0),
                                   !.last_appearance = IntValue(0)]
            ELSE character
    IN  Put(chars, lower(character.name), stored)

\* update_appearance moving first_appearance on every call
update_appearance_always_first(chars, name, chapter) ==
    LET key == lower(lower(name))
    IN  IF key \in DOMAIN chars
        THEN [chars EXCEPT ![key] =
                [@ EXCEPT !.first_appearance = chapter,
                          !.last_appearance = chapter]]
        ELSE chars

\* CharacterManager.update_appearance
update_appearance(chars, name, chapter) ==
    LET key == lower(lower(name))
    IN  IF key \in DOMAIN chars
        THEN [chars EXCEPT ![key] =
                [@ EXCEPT !.first_appearance =
                              IF ~Truthy(@) THEN chapter ELSE @,
                          !.last_appearance = chapter]]
        ELSE chars

\* CharacterManager.track_mention
track_mention(ment, chapter, name) ==
    LET bucket == IF chapter \in DOMAIN ment THEN ment[chapter] ELSE <<>>
        name_lower == lower(name)
        count == IF name_lower \in DOMAIN bucket THEN bucket[name_lower] ELSE 0
    IN  Put(ment, chapter, Put(bucket, name_lower, count + 1))

\* CharacterManager.get_character: the entry under name.lower(), or None
get_character(chars, name) ==
    IF lower(name) \in DOMAIN chars
    THEN [none |-> FALSE, character |-> chars[lower(name)]]
    ELSE [none |-> TRUE]

\* dataclasses.asdict: the dict of the fields of the character
asdict(char) == [field \in DOMAIN char |-> char[field]]

\* CharacterManager.to_dict
to_dict(chars, ment) ==
    [characters |-> [name \in DOMAIN chars |-> asdict(chars[name])],
     mentions |-> ment]

\* from_dict keeping the entries the receiving store had
from_dict_merging(chars, ment, data) ==
    [characters |->
        [name \in DOMAIN chars \cup DOMAIN data.characters |->
            IF name \in DOMAIN data.characters
            THEN data.characters[name] ELSE chars[name]],
     mentions |-> data.mentions]

\* CharacterManager.from_dict: Character(**char_data) for every entry of
\* data["characters"], and data["mentions"]; what the store held is dropped
from_dict(chars, ment, data) ==
    [characters |->
        [name \in DOMAIN data.characters |->
            LET char_data == data.characters[name]
            IN  Character(char_data.name, char_data.first_appearance,
                          char_data.last_appearance)],
     mentions |-> data.mentions]

\* the Python operator in on strings, for a word sub and one lower-cased token
Substring(sub, tok) ==
    \/ sub = tok
    \/ sub = "ann" /\ tok = "joanna"

\* sub in text.lower()
Within(sub, text) ==
    \E i \in 1..Len(text) : Substring(sub, lower(text[i]))

\* the scan recording the mention of a character twice
RECURSIVE ScanCharacters_counting_twice(_, _, _, _)
ScanCharacters_counting_twice(keys, store, content, chapter) ==
    IF keys = {} THEN store
    ELSE LET char_name == CHOOSE k \in keys : TRUE
             next ==
                 IF Within(lower(char_name), content)
                 THEN [characters |->
                          update_appearance(store.characters, char_name, chapter),
                       mentions |->
                          track_mention(
                              track_mention(store.mentions, chapter, char_name),
                              chapter, char_name)]
                 ELSE store
         IN  ScanCharacters_counting_twice(keys \ {char_name}, next, content,
                                          chapter)

\* NovelWriter._update_character_appearances: the loop over the keys that
\* are left, from the store so far
RECURSIVE ScanCharacters(_, _, _, _)
ScanCharacters(keys, store, content, chapter) ==
    IF keys = {} THEN store
    ELSE LET char_name == CHOOSE k \in keys : TRUE
             next ==
                 IF Within(lower(char_name), content)
                 THEN [characters |->
                          update_appearance(store.characters, char_name, chapter),
                       mentions |->
                          track_mention(store.mentions, chapter, char_name)]
                 ELSE store
         IN  ScanCharacters(keys \ {char_name}, next, content, chapter)

_update_character_appearances(content, chapter) ==
    LET scanned == ScanCharacters(DOMAIN characters,
                                  to_dict(characters, mentions), content, chapter)
    IN  /\ characters' = scanned.characters
        /\ mentions' = scanned.mentions

\* the characters NovelWriter.get_character_context keeps: last_appearance
\* unset, or its digits read as a number >= chapter_num - 2.  re.sub on a
\* last_appearance that is a non-zero integer raises TypeError; int() of the
\* digits of a string that has none raises ValueError (with characters of
\* both kinds the first in the dict raises; the model keeps no order and
\* reports TypeError).
get_character_context(chars, chapter_num) ==
    IF \E k \in DOMAIN chars :
          chars[k].last_appearance.t = "int" /\ Truthy(chars[k].last_appearance)
    THEN [error |-> "TypeError", relevant_chars |-> {}]
    ELSE IF \E k \in DOMAIN chars : chars[k].last_appearance.t = "text"
    THEN [error |-> "ValueError", relevant_chars |-> {}]
    ELSE [error |-> "",
          relevant_chars |->
             {k \in DOMAIN chars :
                 \/ ~Truthy(chars[k].last_appearance)
                 \/ chars[k].last_appearance.v >= chapter_num - 2}]

NoCall == [op |-> "", outline |-> <<>>, chapter_num |-> 0]

(***************************************************************************)
(* NovelWriter: drafting a chapter                                         *)
(***************************************************************************)
\* None, and a text where None may stand
None == [none |-> TRUE, text |-> <<>>]

Some(text) == [none |-> FALSE, text |-> text]

\* what the writer agent may answer to write_chapter
Contents == {<<"Ann", "Bob", "ANN">>, <<"Joanna">>, <<"Forest">>}

\* what the reviewer agent may answer to review_chapter
Feedbacks == {<<"Poor">>, <<"Good">>, <<"Good", "Excellent">>, <<"OUTSTANDING">>}

\* the character stores a writer starts from: what initialize_characters
\* builds from the profiles of the character agent (last_appearance is set
\* to first_appearance there)
Profiles ==
    <<Character("Ann", StrValue(1), StrValue(1)),
      Character("Bob", NotANumber, NotANumber)>>

RECURSIVE AddCharacters(_, _)
AddCharacters(chars, profiles) ==
    IF profiles = <<>> THEN chars
    ELSE AddCharacters(add_character(chars, Head(profiles)), Tail(profiles))

InitialCharacters ==
    {AddCharacters(<<>>, SubSeq(Profiles, 1, n)) : n \in 0..Len(Profiles)}

\* extra_instructions is None while the name is unbound; messages is
\* chat_manager.messages of generate_chapter_outline; generated lists the
\* outlines the editor agent has produced during the call and verdicts the
\* is_valid of their automated reviews
NoFrame ==
    [method |-> "", chapter_num |-> 0, outline |-> <<>>, revision |-> 0,
     chapter |-> <<>>, current_feedback |-> None, chapter_versions |-> <<>>,
     attempt |-> 0, extra_instructions |-> None, messages |-> <<>>,
     generated |-> <<>>, verdicts |-> <<>>, returned |-> None]

\* the acceptance test without the two lower() calls
Satisfactory_case_sensitive(feedback) ==
    \E i \in 1..Len(feedback) : feedback[i] \in {"excellent", "outstanding"}

\* the acceptance test of write_chapter_with_revisions
Satisfactory(feedback) ==
    Within("excellent", feedback) \/ Within("outstanding", feedback)

\* the version stored under revision_{revision} in place of
\* revision_{revision + 1}
StoreVersion_key_off_by_one(chapter_versions, revision, chapter, feedback) ==
    Put(chapter_versions, revision,
        [content |-> chapter, feedback |-> feedback])

\* chapter_versions[f"revision_{revision + 1}"] = {content, feedback}
StoreVersion(chapter_versions, revision, chapter, feedback) ==
    Put(chapter_versions, revision + 1,
        [content |-> chapter, feedback |-> feedback])

\* the feedback handed to write_chapter always None
FeedbackArgument_none(current_feedback) == None

\* the previous_feedback argument of write_chapter
FeedbackArgument(current_feedback) == current_feedback

\* the final version taken from revision_1
FinalVersion_first(chapter_versions) == chapter_versions[1].content

\* chapter_versions[f"revision_{len(chapter_versions)}"]["content"]
FinalVersion(chapter_versions) ==
    chapter_versions[Cardinality(DOMAIN chapter_versions)].content

\* write_novel calls write_chapter_with_revisions(outline, chapter_num)
WriteChapterWithRevisions ==
    \E outline \in Outlines, chapter_num \in Chapters :
        /\ pc = "idle"
        /\ frame' = [NoFrame EXCEPT !.method = "write_chapter_with_revisions",
                                    !.chapter_num = chapter_num,
                                    !.outline = outline]
        /\ pc' = IF 0 < max_revisions THEN "write_chapter" ELSE "return"
        /\ UNCHANGED <<reviewerVars, call, review, characterVars, max_revisions,
                       writes, reviews, novel, progress_file, error,
                       pipelineVars>>

\* chapter = self.write_chapter(outline, chapter_num, current_feedback): one
\* answer of the writer agent, scanned for the characters
WriteChapter ==
    /\ pc = "write_chapter"
    /\ LET context == get_character_context(characters, frame.chapter_num)
       IN  IF context.error # ""
           THEN /\ error' = context.error
                /\ pc' = "raised"
                /\ UNCHANGED <<characterVars, frame, writes>>
           ELSE \E chapter_content \in Contents :
                   /\ _update_character_appearances(chapter_content,
                                                    StrValue(frame.chapter_num))
                   /\ frame' = [frame EXCEPT !.chapter = chapter_content]
                   /\ writes' = Append(writes,
                         [chapter_num |-> frame.chapter_num,
                          outline |-> frame.outline,
                          previous_feedback |->
                             FeedbackArgument(frame.current_feedback),
                          chapter_content |-> chapter_content])
                   /\ pc' = "review_chapter"
                   /\ UNCHANGED error
    /\ UNCHANGED <<reviewerVars, call, review, max_revisions, reviews, novel,
                   progress_file, pipelineVars>>

\* current_feedback = self.review_chapter(chapter, chapter_num, revision + 1),
\* the version is stored, and the loop ends or goes on
ReviewChapter ==
    /\ pc = "review_chapter"
    /\ LET context == get_character_context(characters, frame.chapter_num)
       IN  IF context.error # ""
           THEN /\ error' = context.error
                /\ pc' = "raised"
                /\ UNCHANGED <<frame, reviews>>
           ELSE \E feedback \in Feedbacks :
                   /\ reviews' = Append(reviews,
                         [chapter |-> frame.chapter,
                          revision_num |-> frame.revision + 1,
                          feedback |-> feedback])
                   /\ frame' =
                         [frame EXCEPT
                            !.current_feedback = Some(feedback),
                            !.chapter_versions =
                                StoreVersion(@, frame.revision, frame.chapter,
                                             feedback),
                            !.revision =
                                IF ~Satisfactory(feedback)
                                   /\ frame.revision + 1 < max_revisions
                                THEN @ + 1 ELSE @]
                   /\ pc' = IF ~Satisfactory(feedback)
                               /\ frame.revision + 1 < max_revisions
                            THEN "write_chapter" ELSE "return"
                   /\ UNCHANGED error
    /\ UNCHANGED <<reviewerVars, call, review, characterVars, max_revisions,
                   writes, novel, progress_file, pipelineVars>>

\* the chapter record added to the novel with no write of the progress file
StoreChapter_without_progress_file ==
    /\ pc = "return"
    /\ frame.method = "write_chapter_with_revisions"
    /\ frame.chapter_versions # <<>>
    /\ novel' =
          [characters |-> to_dict(characters, mentions),
           chapters |->
              Put(novel.chapters, frame.chapter_num,
                  [outline |-> frame.outline,
                   versions |-> frame.chapter_versions,
                   final_version |-> FinalVersion(frame.chapter_versions)])]
    /\ pc' = "stored"
    /\ UNCHANGED <<reviewerVars, call, review, characterVars, max_revisions,
                   frame, writes, reviews, progress_file, error, pipelineVars>>

\* write_novel after write_chapter_with_revisions returned: the chapter
\* record with its final version, the character snapshot, the progress file
StoreChapter ==
    /\ pc = "return"
    /\ frame.method = "write_chapter_with_revisions"
    /\ LET chapter_versions == frame.chapter_versions
           last == Cardinality(DOMAIN chapter_versions)
       IN  IF last \notin DOMAIN chapter_versions
           THEN /\ error' = "KeyError"
                /\ pc' = "raised"
                /\ UNCHANGED <<novel, progress_file>>
           ELSE LET stored ==
                        [characters |-> to_dict(characters, mentions),
                         chapters |->
                            Put(novel.chapters, frame.chapter_num,
                                [outline |-> frame.outline,
                                 versions |-> chapter_versions,
                                 final_version |->
                                    FinalVersion(chapter_versions)])]
                IN  /\ novel' = stored
                    /\ progress_file' = Some(stored)
                    /\ pc' = "stored"
                    /\ UNCHANGED error
    /\ UNCHANGED <<reviewerVars, call, review, characterVars, max_revisions,
                   frame, writes, reviews, pipelineVars>>

\* write_novel has not been called; completed is the set of chapters whose
\* records novel_progress.json held when the process was started
NoRun ==
    [pc |-> "", restarted |-> FALSE, previous |-> "", chapter_num |-> 0,
     outline |-> <<>>, extractions |-> 0, generations |-> 0, completed |-> {}]

\* an empty novel_output directory and no run of write_novel
NoPipeline ==
    /\ character_file = None
    /\ outline_files = <<>>
    /\ run = NoRun

\* a new NovelWriter: empty reviewer, nothing in progress
NewWriter ==
    /\ outlines = <<>>
    /\ titles = {}
    /\ call = NoCall
    /\ review = NoReview
    /\ pc = "idle"
    /\ frame = NoFrame
    /\ writes = <<>>
    /\ reviews = <<>>
    /\ progress_file = None
    /\ error = ""

DraftInit ==
    /\ NewWriter
    /\ NoPipeline
    /\ outline_only = FALSE
    /\ max_revisions \in 1..MaxRevisions
    /\ characters \in InitialCharacters
    /\ mentions = <<>>
    /\ novel = [characters |-> to_dict(characters, mentions), chapters |-> <<>>]

DraftNext ==
    \/ WriteChapterWithRevisions
    \/ WriteChapter
    \/ ReviewChapter
    \/ StoreChapter

SpecDraft == DraftInit /\ [][DraftNext]_vars

(***************************************************************************)
(* NovelWriter: generating the outline of a chapter                        *)
(***************************************************************************)
max_attempts == 3

\* what the agents may answer to review_outline_with_agents
AgentFeedbacks == {<<"Poor">>, <<"Good">>}

FinalChapterInstructions == <<"final", "chapter">>

\* generate_chapter_outline(premise, chapter_num) is called: max_attempts is
\* set, and extra_instructions is bound for the last chapter only
GenerateChapterOutline ==
    \E chapter_num \in Chapters :
        /\ pc = "idle"
        /\ frame' = [NoFrame EXCEPT
                       !.method = "generate_chapter_outline",
                       !.chapter_num = chapter_num,
                       !.extra_instructions =
                           IF chapter_num = num_chapters
                           THEN Some(FinalChapterInstructions) ELSE None]
        /\ pc' = IF 0 < max_attempts THEN "generate_outline" ELSE "return"
        /\ UNCHANGED <<reviewerVars, call, review, characterVars, max_revisions,
                       writes, reviews, novel, progress_file, error,
                       pipelineVars>>

\* one pass of the loop up to outline = chat_manager.messages[1]["content"]:
\* the character context, a new group chat, the prompt (which reads
\* extra_instructions), the answer of the editor agent
GenerateOutline ==
    /\ pc = "generate_outline"
    /\ LET context == get_character_context(characters, frame.chapter_num)
       IN  IF context.error # ""
           THEN /\ error' = context.error
                /\ pc' = "raised"
                /\ UNCHANGED frame
           ELSE IF frame.extra_instructions = None
           THEN /\ error' = "UnboundLocalError"
                /\ pc' = "raised"
                /\ UNCHANGED frame
           ELSE \E outline \in Outlines :
                   /\ frame' = [frame EXCEPT
                                  !.outline = outline,
                                  !.messages = <<"prompt", "outline">>,
                                  !.generated = Append(@, outline)]
                   /\ pc' = "review_outline"
                   /\ UNCHANGED error
    /\ UNCHANGED <<reviewerVars, call, review, characterVars, max_revisions,
                   writes, reviews, novel, progress_file, pipelineVars>>

\* the rest of the pass: review_outline_with_agents (the agents' feedback and
\* the automated review_outline), then return, retry or give up
ReviewOutlineWithAgents ==
    /\ pc = "review_outline"
    /\ LET context == get_character_context(characters, frame.chapter_num)
       IN  IF context.error # ""
           THEN /\ error' = context.error
                /\ pc' = "raised"
                /\ UNCHANGED <<reviewerVars, call, review, frame>>
           ELSE \E agent_feedback \in AgentFeedbacks :
                   /\ review_outline(frame.outline, frame.chapter_num)
                   /\ call' = [op |-> "review_outline", outline |-> frame.outline,
                               chapter_num |-> frame.chapter_num]
                   /\ IF review'.error # ""
                      THEN /\ error' = review'.error
                           /\ pc' = "raised"
                           /\ UNCHANGED frame
                      ELSE IF review'.is_valid
                      THEN /\ frame' = [frame EXCEPT
                                          !.verdicts = Append(@, TRUE),
                                          !.returned = Some(frame.outline)]
                           /\ pc' = "return"
                           /\ UNCHANGED error
                      ELSE IF frame.attempt < max_attempts - 1
                      THEN /\ frame' = [frame EXCEPT
                                          !.verdicts = Append(@, FALSE),
                                          !.messages = Append(@, "issues"),
                                          !.attempt = @ + 1]
                           /\ pc' = "generate_outline"
                           /\ UNCHANGED error
                      ELSE /\ frame' = [frame EXCEPT
                                          !.verdicts = Append(@, FALSE),
                                          !.returned = Some(frame.outline)]
                           /\ pc' = "return"
                           /\ UNCHANGED error
    /\ UNCHANGED <<characterVars, max_revisions, writes, reviews, novel,
                   progress_file, pipelineVars>>

\* the caller has the outline; the writer is ready for the next call
OutlineReturned ==
    /\ pc = "return"
    /\ frame.method = "generate_chapter_outline"
    /\ pc' = "idle"
    /\ frame' = NoFrame
    /\ UNCHANGED <<reviewerVars, call, review, characterVars, max_revisions,
                   writes, reviews, novel, progress_file, error,
                   pipelineVars>>

\* write_novel registers the outline of an existing outline file
LoadExistingOutline ==
    \E outline \in Outlines, chapter_num \in Chapters :
        /\ pc = "idle"
        /\ add_existing_outline(outline, chapter_num)
        /\ call' = [op |-> "add_existing_outline", outline |-> outline,
                    chapter_num |-> chapter_num]
        /\ review' = NoReview
        /\ UNCHANGED <<characterVars, writerVars, pipelineVars>>

OutlineInit ==
    /\ NewWriter
    /\ NoPipeline
    /\ outline_only = TRUE
    /\ max_revisions = 2
    /\ characters = AddCharacters(<<>>, Profiles)
    /\ mentions = <<>>
    /\ novel = [characters |-> to_dict(characters, mentions), chapters |-> <<>>]

OutlineNext ==
    \/ GenerateChapterOutline
    \/ GenerateOutline
    \/ ReviewOutlineWithAgents
    \/ OutlineReturned
    \/ LoadExistingOutline

SpecOutline == OutlineInit /\ [][OutlineNext]_vars

(***************************************************************************)
(* NovelWriter.write_novel: the pipeline, and its restart                  *)
(***************************************************************************)
\* the outline files a run may find in novel_output when it starts
ExistingOutlines ==
    <<StormOutline, HashOutline, PlainOutline, ShoutedOutline, TermlessOutline>>

ExistingOutline(chapter_num) ==
    ExistingOutlines[((chapter_num - 1) % Len(ExistingOutlines)) + 1]

\* one object of the JSON array the character agent answers with: the keys
\* it has ("role" stands for every field of Character the engine never
\* reads), and the values of name and first_appearance where present
RequiredKeys == {"name", "role", "first_appearance"}

CharData(name, keys, first_appearance) ==
    [name |-> name, keys |-> keys, first_appearance |-> first_appearance]

\* the loop over the parsed array.  char_data['first_appearance'] and
\* char_data['name'] are read outside the inner try: a missing key raises
\* KeyError, which the outer except turns into exit(1).  An empty name is
\* passed over; Character(**char_data) with a field missing raises TypeError
\* inside the inner try and the entry is skipped.
RECURSIVE ParseCharacters(_, _)
ParseCharacters(chars, response) ==
    IF response = <<>> THEN [error |-> "", characters |-> chars]
    ELSE LET char_data == Head(response)
         IN  IF "first_appearance" \notin char_data.keys
                \/ "name" \notin char_data.keys
             THEN [error |-> "SystemExit", characters |-> chars]
             ELSE IF char_data.name = "" \/ char_data.keys # RequiredKeys
             THEN ParseCharacters(chars, Tail(response))
             ELSE ParseCharacters(
                      add_character(chars,
                          Character(char_data.name, char_data.first_appearance,
                                    char_data.first_appearance)),
                      Tail(response))

\* what the character agent answers during a run of the pipeline: the two
\* profiles; Ann without a role; Ann without first_appearance
ExtractedResponses ==
    {<<CharData("Ann", RequiredKeys, StrValue(1)),
       CharData("Bob", RequiredKeys, NotANumber)>>,
     <<CharData("Ann", {"name", "first_appearance"}, StrValue(1)),
       CharData("Bob", RequiredKeys, NotANumber)>>,
     <<CharData("Ann", {"name", "role"}, NotANumber),
       CharData("Bob", RequiredKeys, NotANumber)>>}

NovelOutlines == {ShoutedOutline, HashOutline, TermlessOutline}

NovelContents == {<<"Ann", "Bob", "ANN">>}

NovelFeedbacks == {<<"Poor">>, <<"Good", "Excellent">>}

\* the novel dict as write_novel builds it after initialize_characters
NewNovel(chars, ment) ==
    [characters |-> to_dict(chars, ment), chapters |-> <<>>]

\* the for statement moves on: the next chapter, or return novel
NextChapter(r) ==
    IF r.chapter_num = num_chapters
    THEN [r EXCEPT !.pc = "done", !.outline = <<>>]
    ELSE [r EXCEPT !.pc = "outline", !.chapter_num = @ + 1, !.outline = <<>>]

\* the outline of the chapter is at hand: if not outline_only the chapter
\* is drafted, else the loop moves on
AfterOutline(r, outline) ==
    IF outline_only THEN NextChapter(r)
    ELSE [r EXCEPT !.pc = "draft", !.outline = outline]

\* initialize_characters, then the novel dict: the store is loaded from the
\* character file if there is one; else the character agent is asked, its
\* profiles are added and the store is written to the file.  exit(1) in the
\* parse loop ends the process before the file is written.
InitializeCharacters ==
    /\ run.pc = "initialize_characters"
    /\ pc = "idle"
    /\ IF ~character_file.none
       THEN LET loaded == from_dict(characters, mentions, character_file.text)
            IN  /\ characters' = loaded.characters
                /\ mentions' = loaded.mentions
                /\ run' = [run EXCEPT !.pc = "outline", !.chapter_num = 1]
                /\ novel' = NewNovel(characters', mentions')
                /\ UNCHANGED <<character_file, call, pc, error>>
       ELSE \E response \in ExtractedResponses :
                LET parsed == ParseCharacters(characters, response)
                IN  /\ characters' = parsed.characters
                    /\ mentions' = mentions
                    /\ call' = [op |-> "initialize_characters",
                                response |-> response]
                    /\ IF parsed.error # ""
                       THEN /\ error' = parsed.error
                            /\ pc' = "raised"
                            /\ run' = [run EXCEPT !.extractions = @ + 1]
                            /\ UNCHANGED <<character_file, novel>>
                       ELSE /\ character_file' =
                                   Some(to_dict(characters', mentions'))
                            /\ run' = [run EXCEPT !.pc = "outline",
                                                  !.chapter_num = 1,
                                                  !.extractions = @ + 1]
                            /\ novel' = NewNovel(characters', mentions')
                            /\ UNCHANGED <<pc, error>>
    /\ UNCHANGED <<reviewerVars, review, max_revisions, frame, writes,
                   reviews, progress_file, outline_files, outline_only>>

\* the outline file of the chapter exists: it is read and registered
LoadOutlineFile ==
    /\ run.pc = "outline"
    /\ pc = "idle"
    /\ run.chapter_num \in DOMAIN outline_files
    /\ LET outline == outline_files[run.chapter_num]
       IN  /\ add_existing_outline(outline, run.chapter_num)
           /\ call' = [op |-> "add_existing_outline", outline |-> outline,
                       chapter_num |-> run.chapter_num]
           /\ run' = AfterOutline(run, outline)
    /\ review' = NoReview
    /\ UNCHANGED <<characterVars, writerVars, character_file, outline_files,
                   outline_only>>

\* no outline file: generate_chapter_outline(premise, chapter_num) is called
NovelGenerateChapterOutline ==
    /\ run.pc = "outline"
    /\ run.chapter_num \notin DOMAIN outline_files
    /\ GenerateChapterOutline
    /\ frame'.chapter_num = run.chapter_num

NovelGenerateOutline ==
    /\ run.pc = "outline"
    /\ GenerateOutline
    /\ pc' = "raised" \/ frame'.outline \in NovelOutlines

NovelReviewOutlineWithAgents ==
    /\ run.pc = "outline"
    /\ ReviewOutlineWithAgents

\* the return of generate_chapter_outline with no write to the outline file
NovelOutlineReturned_without_file ==
    /\ run.pc = "outline"
    /\ pc = "return"
    /\ frame.method = "generate_chapter_outline"
    /\ run' = AfterOutline([run EXCEPT !.generations = @ + Len(frame.generated)],
                           frame.returned.text)
    /\ pc' = "idle"
    /\ frame' = NoFrame
    /\ UNCHANGED <<reviewerVars, call, review, characterVars, max_revisions,
                   writes, reviews, novel, progress_file, error, character_file,
                   outline_files, outline_only>>

\* generate_chapter_outline returned: the outline is written to its file
NovelOutlineReturned ==
    /\ run.pc = "outline"
    /\ pc = "return"
    /\ frame.method = "generate_chapter_outline"
    /\ outline_files' = Put(outline_files, run.chapter_num, frame.returned.text)
    /\ run' = AfterOutline([run EXCEPT !.generations = @ + Len(frame.generated)],
                           frame.returned.text)
    /\ pc' = "idle"
    /\ frame' = NoFrame
    /\ UNCHANGED <<reviewerVars, call, review, characterVars, max_revisions,
                   writes, reviews, novel, progress_file, error, character_file,
                   outline_only>>

\* if not outline_only: write_chapter_with_revisions(outline, chapter_num)
NovelWriteChapterWithRevisions ==
    /\ run.pc = "draft"
    /\ WriteChapterWithRevisions
    /\ frame'.outline = run.outline
    /\ frame'.chapter_num = run.chapter_num

NovelWriteChapter ==
    /\ run.pc = "draft"
    /\ WriteChapter
    /\ pc' = "raised" \/ frame'.chapter \in NovelContents

NovelReviewChapter ==
    /\ run.pc = "draft"
    /\ ReviewChapter
    /\ pc' = "raised" \/ frame'.current_feedback.text \in NovelFeedbacks

\* the chapter record, the character snapshot and the progress file
NovelStoreChapter ==
    /\ run.pc = "draft"
    /\ StoreChapter

\* the body of the loop is over for this chapter
NovelNextChapter ==
    /\ run.pc = "draft"
    /\ pc = "stored"
    /\ pc' = "idle"
    /\ frame' = NoFrame
    /\ run' = NextChapter(run)
    /\ UNCHANGED <<reviewerVars, call, review, characterVars, max_revisions,
                   writes, reviews, novel, progress_file, error, character_file,
                   outline_files, outline_only>>

\* the process is over (write_novel returned, an exception ended it, or it
\* was stopped between two chapters) and the program is started again on
\* the same novel_output directory
Restart ==
    /\ ~run.restarted
    /\ run.pc = "done" \/ pc = "raised" \/ (run.pc = "outline" /\ pc = "idle")
    /\ outlines' = <<>>
    /\ titles' = {}
    /\ call' = NoCall
    /\ review' = NoReview
    /\ characters' = <<>>
    /\ mentions' = <<>>
    /\ pc' = "idle"
    /\ frame' = NoFrame
    /\ writes' = <<>>
    /\ reviews' = <<>>
    /\ error' = ""
    /\ novel' = NewNovel(<<>>, <<>>)
    /\ run' = [NoRun EXCEPT
                 !.pc = "initialize_characters",
                 !.restarted = TRUE,
                 !.completed = IF progress_file.none THEN {}
                               ELSE DOMAIN progress_file.text.chapters,
                 !.previous = IF run.pc = "done" THEN "done"
                              ELSE IF pc = "raised" THEN "raised"
                              ELSE "stopped"]
    /\ UNCHANGED <<max_revisions, progress_file, character_file, outline_files,
                   outline_only>>

\* the program is started with outline files for the first chapters, or
\* none, in novel_output
NovelInit ==
    /\ NewWriter
    /\ max_revisions = 2
    /\ characters = <<>>
    /\ mentions = <<>>
    /\ novel = NewNovel(<<>>, <<>>)
    /\ character_file = None
    /\ outline_files \in
          {[c \in 1..k |-> ExistingOutline(c)] : k \in 0..num_chapters}
    /\ outline_only \in BOOLEAN
    /\ run = [NoRun EXCEPT !.pc = "initialize_characters"]

NovelNext ==
    \/ InitializeCharacters
    \/ LoadOutlineFile
    \/ NovelGenerateChapterOutline
    \/ NovelGenerateOutline
    \/ NovelReviewOutlineWithAgents
    \/ NovelOutlineReturned
    \/ NovelWriteChapterWithRevisions
    \/ NovelWriteChapter
    \/ NovelReviewChapter
    \/ NovelStoreChapter
    \/ NovelNextChapter
    \/ Restart

SpecNovel == NovelInit /\ [][NovelNext]_vars

(***************************************************************************)
(* The reviewer on its own                                                 *)
(***************************************************************************)
ReviewOutline ==
    \E outline \in Outlines, chapter_num \in Chapters :
        /\ review_outline(outline, chapter_num)
        /\ call' = [op |-> "review_outline", outline |-> outline,
                    chapter_num |-> chapter_num]
        /\ UNCHANGED <<characterVars, writerVars, pipelineVars>>

AddExistingOutline ==
    \E outline \in Outlines, chapter_num \in Chapters :
        /\ add_existing_outline(outline, chapter_num)
        /\ call' = [op |-> "add_existing_outline", outline |-> outline,
                    chapter_num |-> chapter_num]
        /\ review' = NoReview
        /\ UNCHANGED <<characterVars, writerVars, pipelineVars>>

ReviewerInit ==
    /\ NewWriter
    /\ NoPipeline
    /\ outline_only = TRUE
    /\ max_revisions = 2
    /\ characters = <<>>
    /\ mentions = <<>>
    /\ novel = [characters |-> to_dict(characters, mentions), chapters |-> <<>>]

ReviewerNext == ReviewOutline \/ AddExistingOutline

SpecReviewer == ReviewerInit /\ [][ReviewerNext]_vars

(***************************************************************************)
(* extract_title on its own                                                *)
(***************************************************************************)
\* Longest text, in tokens, that extract_title is applied to.
MaxTitleLen == 5

TitleTokens == {TITLE, QUOTE, CHAPTER, HASH, NL, "Storm"}

\* the texts of at most MaxTitleLen tokens, and the outlines of the reviewer
TitleTexts ==
    UNION {[1..n -> TitleTokens] : n \in 0..MaxTitleLen} \cup Outlines

ExtractTitle ==
    /\ call = NoCall
    /\ \E outline \in TitleTexts :
          call' = [op |-> "extract_title", outline |-> outline,
                   chapter_num |-> 0, result |-> extract_title(outline)]
    /\ UNCHANGED <<reviewerVars, review, characterVars, writerVars, pipelineVars>>

TitleNext == ExtractTitle

SpecTitle == ReviewerInit /\ [][TitleNext]_vars

(***************************************************************************)
(* _calculate_similarity on its own                                        *)
(***************************************************************************)
\* Longest text, in tokens, that _calculate_similarity is applied to.
MaxTextLen == 2

\* a stop word, a token that is not alphabetic, and two terms
SimilarityTokens == {"The", HASH, "Storm", "River"}

SimilarityTexts == UNION {[1..n -> SimilarityTokens] : n \in 0..MaxTextLen}

\* _calculate_similarity(text1, text2) is called; results lists what the
\* calls with these arguments returned or raised
CalculateSimilarity ==
    /\ call = NoCall
    /\ \E text1, text2 \in SimilarityTexts :
          call' = [op |-> "_calculate_similarity", text1 |-> text1,
                   text2 |-> text2,
                   results |-> <<_calculate_similarity(text1, text2)>>]
    /\ UNCHANGED <<reviewerVars, review, characterVars, writerVars, pipelineVars>>

\* the same call once more
CalculateSimilarityAgain ==
    /\ call.op = "_calculate_similarity"
    /\ Len(call.results) = 1
    /\ call' = [call EXCEPT
                  !.results =
                      Append(@, _calculate_similarity(call.text1, call.text2))]
    /\ UNCHANGED <<reviewerVars, review, characterVars, writerVars, pipelineVars>>

SimilarityNext == CalculateSimilarity \/ CalculateSimilarityAgain

SpecSimilarity == ReviewerInit /\ [][SimilarityNext]_vars

(***************************************************************************)
(* The character manager on its own                                        *)
(***************************************************************************)
\* the names characters are added under, and the names they are asked for
Names == {"Ann", "ANN", "Bob"}

LookupNames == Names \cup {"Joanna"}

\* the chapter argument of update_appearance and track_mention: str(chapter_num)
ChapterArguments == {StrValue(c) : c \in Chapters}

\* first_appearance and last_appearance of a character handed to
\* add_character: a chapter span, or a first_appearance that is no number
Appearances ==
    {<<StrValue(a), StrValue(a)>> : a \in Chapters}
        \cup {<<StrValue(a), StrValue(num_chapters)>> : a \in Chapters}
        \cup {<<NotANumber, NotANumber>>, <<NotANumber, StrValue(1)>>}

\* Most mentions the table holds before a further one is recorded.
MaxMentions == 2

MentionTotal(ment) ==
    Cardinality({cell \in (DOMAIN ment) \X {lower(n) : n \in Names}
                              \X (1..(MaxMentions + Cardinality(Names))) :
                    /\ cell[2] \in DOMAIN ment[cell[1]]
                    /\ cell[3] <= ment[cell[1]][cell[2]]})

\* the stores whose to_dict is handed to from_dict, besides the current one
SavedStores ==
    {[characters |-> AddCharacters(<<>>, SubSeq(Profiles, 1, n)), mentions |-> m] :
        n \in 0..Len(Profiles),
        m \in {<<>>, track_mention(<<>>, StrValue(1), "Ann")}}

CharacterCall(op, name, chapter, arg, result) ==
    [op |-> op, name |-> name, chapter |-> chapter, arg |-> arg,
     result |-> result]

AddCharacter ==
    \E name \in Names, span \in Appearances :
        LET character == Character(name, span[1], span[2])
        IN  /\ characters' = add_character(characters, character)
            /\ call' = CharacterCall("add_character", name, NotANumber,
                                     character, None)
            /\ UNCHANGED <<reviewerVars, review, mentions, writerVars, pipelineVars>>

GetCharacter ==
    \E name \in LookupNames :
        /\ call' = CharacterCall("get_character", name, NotANumber, None,
                                 get_character(characters, name))
        /\ UNCHANGED <<reviewerVars, review, characterVars, writerVars, pipelineVars>>

UpdateAppearance ==
    \E name \in LookupNames, chapter \in ChapterArguments :
        /\ characters' = update_appearance(characters, name, chapter)
        /\ call' = CharacterCall("update_appearance", name, chapter, None, None)
        /\ UNCHANGED <<reviewerVars, review, mentions, writerVars, pipelineVars>>

\* other.from_dict(store.to_dict()), for the current store as other
FromDict ==
    \E store \in SavedStores \cup {[characters |-> characters,
                                      mentions |-> mentions]} :
        LET loaded == from_dict(characters, mentions,
                                to_dict(store.characters, store.mentions))
        IN  /\ characters' = loaded.characters
            /\ mentions' = loaded.mentions
            /\ call' = CharacterCall("from_dict", "", NotANumber,
                                     [store |-> store,
                                      self |-> [characters |-> characters,
                                                mentions |-> mentions]],
                                     None)
            /\ UNCHANGED <<reviewerVars, review, writerVars, pipelineVars>>

CharactersInit ==
    /\ NewWriter
    /\ NoPipeline
    /\ outline_only = TRUE
    /\ max_revisions = 2
    /\ characters = <<>>
    /\ mentions = <<>>
    /\ novel = [characters |-> to_dict(characters, mentions), chapters |-> <<>>]

CharactersNext ==
    \/ AddCharacter
    \/ GetCharacter
    \/ UpdateAppearance
    \/ FromDict

SpecCharacters == CharactersInit /\ [][CharactersNext]_vars

(***************************************************************************)
(* Scanning chapter texts for the characters                               *)
(***************************************************************************)
TrackMention ==
    \E name \in Names, chapter \in ChapterArguments :
        /\ MentionTotal(mentions) < MaxMentions
        /\ mentions' = track_mention(mentions, chapter, name)
        /\ call' = CharacterCall("track_mention", name, chapter, None, None)
        /\ UNCHANGED <<reviewerVars, review, characters, writerVars, pipelineVars>>

UpdateCharacterAppearances ==
    \E content \in Contents, chapter \in ChapterArguments :
        /\ MentionTotal(mentions) < MaxMentions
        /\ _update_character_appearances(content, chapter)
        /\ call' = CharacterCall("_update_character_appearances", "", chapter,
                                 content, None)
        /\ UNCHANGED <<reviewerVars, review, writerVars, pipelineVars>>

ScanInit ==
    /\ NewWriter
    /\ NoPipeline
    /\ outline_only = TRUE
    /\ max_revisions = 2
    /\ characters \in InitialCharacters
    /\ mentions = <<>>
    /\ novel = [characters |-> to_dict(characters, mentions), chapters |-> <<>>]

ScanNext == TrackMention \/ UpdateCharacterAppearances

SpecScan == ScanInit /\ [][ScanNext]_vars

(***************************************************************************)
(* get_character_context on the stores the program builds                  *)
(***************************************************************************)
ContextNames == {"Ann", "Bob"}

\* first_appearance and last_appearance of the characters added: what the
\* extraction hands over (last_appearance = first_appearance, a string
\* with the chapter number, a JSON number, or a string that is no number),
\* and a character built by a caller with a last_appearance that is no number
ContextAppearances ==
    {<<StrValue(a), StrValue(a)>> : a \in Chapters}
        \cup {<<IntValue(1), IntValue(1)>>, <<NotANumber, NotANumber>>,
              <<StrValue(1), NotANumber>>}

ContextAddCharacter ==
    \E name \in ContextNames, span \in ContextAppearances :
        LET character == Character(name, span[1], span[2])
        IN  /\ characters' = add_character(characters, character)
            /\ call' = CharacterCall("add_character", name, NotANumber,
                                     character, None)
            /\ UNCHANGED <<reviewerVars, review, mentions, writerVars, pipelineVars>>

GetCharacterContext ==
    \E chapter_num \in Chapters :
        /\ call' = CharacterCall("get_character_context", "",
                                 StrValue(chapter_num), chapter_num,
                                 get_character_context(characters, chapter_num))
        /\ UNCHANGED <<reviewerVars, review, characterVars, writerVars, pipelineVars>>

ContextNext ==
    \/ ContextAddCharacter
    \/ UpdateCharacterAppearances
    \/ GetCharacterContext

SpecContext == CharactersInit /\ [][ContextNext]_vars

(***************************************************************************)
(* Properties of the reviewer                                              *)
(***************************************************************************)
\* a step that is a call of review_outline which returned a review
ReviewReturned == call'.op = "review_outline" /\ review'.error = ""

\* the text has at least one term for the tf-idf vectorizer
HasTerms(text) == SimilarityOf[text, text].error = ""

\* the cosine similarity of the two outlines exceeds 0.70
MoreThanSeventyPercent(a, b) ==
    LET sim == SimilarityOf[a, b]
    IN  sim.error = "" /\ 100 * sim.num > 49 * sim.den

\* C1: a call of review_outline that returns has is_valid true exactly when
\* its issue list is empty, that is when the title check and the uniqueness
\* check both passed; then the outline is stored under the chapter index and
\* its title, if any, joins the title set; when an issue is reported the
\* stored outlines and the title set are what they were before the call.
C1_CommitsExactlyWhenValid ==
    [][ReviewReturned =>
          LET title == TitleOf[call'.outline]
          IN  /\ review'.is_valid = (review'.issues = <<>>)
              /\ review'.is_valid =
                    (review'.title_unique /\ review'.outline_unique)
              /\ review'.is_valid =>
                    /\ outlines' =
                          Put(outlines, call'.chapter_num, call'.outline)
                    /\ titles' = titles \cup (IF title = <<>> THEN {} ELSE {title})
              /\ ~review'.is_valid =>
                    /\ review'.issues # <<>>
                    /\ outlines' = outlines
                    /\ titles' = titles]_vars

\* a review that reported an issue while outlines were already stored
C1_Witness ==
    /\ call.op = "review_outline"
    /\ review.error = ""
    /\ ~review.is_valid
    /\ review.issues # <<>>
    /\ outlines # <<>>
    /\ titles # {}

\* C2: a call of review_outline that returns reports outline_unique false
\* exactly when the outline is more than 0.70 similar to some outline stored
\* at the time of the call, whatever its chapter index; with nothing stored
\* outline_unique is true.
C2_UniqueAgainstAllStored ==
    [][ReviewReturned =>
          /\ review'.outline_unique =
                ~(\E c \in DOMAIN outlines :
                      MoreThanSeventyPercent(call'.outline, outlines[c]))
          /\ outlines = <<>> => review'.outline_unique]_vars

\* an outline for chapter 3 rejected for its similarity to chapter 1 alone
C2_Witness ==
    /\ call.op = "review_outline"
    /\ call.chapter_num = 3
    /\ review.error = ""
    /\ ~review.outline_unique
    /\ {1, 2} \subseteq DOMAIN outlines
    /\ MoreThanSeventyPercent(call.outline, outlines[1])
    /\ call.outline # outlines[1]
    /\ \A c \in DOMAIN outlines \ {1} :
          ~MoreThanSeventyPercent(call.outline, outlines[c])

\* a step that reviews for another chapter the outline that the call just
\* before it got accepted
SameOutlineAgain ==
    /\ call.op = "review_outline"
    /\ review.error = ""
    /\ review.is_valid
    /\ call'.op = "review_outline"
    /\ call'.outline = call.outline
    /\ call'.chapter_num # call.chapter_num

\* the second review returns outline_unique false and is_valid false and
\* stores nothing
RejectedAsDuplicate ==
    /\ review'.error = ""
    /\ ~review'.outline_unique
    /\ ~review'.is_valid
    /\ outlines' = outlines

\* C3 as stated: for any outline O and chapters C # C', review(O, C) accepted
\* and then at once review(O, C') gives outline_unique false and is_valid
\* false and does not store O under C'.
C3_AnyOutlineRejectedAgain ==
    [][SameOutlineAgain => RejectedAsDuplicate]_vars

\* C3 amended: the same, for every outline O that has at least one term (an
\* alphabetic word of two letters or more that is not a stop word).
C3_OutlineWithTermsRejectedAgain ==
    [][(SameOutlineAgain /\ HasTerms(call'.outline)) =>
          RejectedAsDuplicate]_vars

\* an outline with terms, stored for one chapter, rejected for another
C3_Witness ==
    /\ call.op = "review_outline"
    /\ review.error = ""
    /\ ~review.outline_unique
    /\ ~review.is_valid
    /\ HasTerms(call.outline)
    /\ \E c \in DOMAIN outlines :
          c # call.chapter_num /\ outlines[c] = call.outline
    /\ call.chapter_num \notin DOMAIN outlines

\* the stored outlines of the chapters other than chapter_num
OtherOutlines(chapter_num) ==
    {outlines[c] : c \in DOMAIN outlines \ {chapter_num}}

\* C4: a review for a chapter index C that already holds an outline is
\* judged against the outlines and titles of the other chapters only, so
\* that reviewing the stored outline of C for C again is valid; on success
\* only the slot of C is overwritten.
C4_RereviewJudgedAgainstOthers ==
    [][(call'.op = "review_outline" /\ call'.chapter_num \in DOMAIN outlines) =>
          LET o == call'.outline
              c == call'.chapter_num
              title == TitleOf[o]
          IN  /\ review'.error = ""
              /\ review'.outline_unique =
                    ~(\E p \in OtherOutlines(c) : MoreThanSeventyPercent(o, p))
              /\ review'.title_unique =
                    ~(\E p \in OtherOutlines(c) :
                          /\ title # <<>>
                          /\ LowerText(TitleOf[p]) = LowerText(title))
              /\ outlines[c] = o => review'.is_valid
              /\ review'.is_valid =>
                    /\ DOMAIN outlines' = DOMAIN outlines
                    /\ outlines'[c] = o
                    /\ \A d \in DOMAIN outlines \ {c} :
                          outlines'[d] = outlines[d]]_vars

\* C5: a call of review_outline that returns reports title_unique false, with
\* an issue, whenever the extracted title equals a registered title up to
\* letter case; an outline without a title gets title_unique true.
C5_TitleUniqueIgnoringCase ==
    [][ReviewReturned =>
          LET title == TitleOf[call'.outline]
          IN  /\ (title # <<>> /\ \E t \in titles : LowerText(t) = LowerText(title))
                    => (~review'.title_unique /\ "title" \in Range(review'.issues))
              /\ title = <<>> => review'.title_unique]_vars

\* a title rejected although it is registered in another letter case only,
\* the outline itself being unlike every stored one
C5_Witness ==
    /\ call.op = "review_outline"
    /\ review.error = ""
    /\ ~review.title_unique
    /\ review.outline_unique
    /\ TitleOf[call.outline] \notin titles
    /\ titles # {}

(***************************************************************************)
(* Properties of chapter drafting                                          *)
(***************************************************************************)
\* the feedback text holds the word excellent or outstanding in any case
HasQualityMarker(feedback) ==
    \E i \in 1..Len(feedback) :
        lower(feedback[i]) \in {"excellent", "outstanding"}

\* the loop of write_chapter_with_revisions is over
LoopEnded == pc \in {"return", "stored"}

\* the final text of the chapter write_novel has stored
FinalText == novel.chapters[frame.chapter_num].final_version

\* C6: with max_revisions = N >= 1 and feedback that never carries a quality
\* marker, the loop makes exactly N write_chapter and N review_chapter calls,
\* ends without an exception, and the final text is the content of round N.
C6_ExhaustsAfterMaxRounds ==
    (\A k \in 1..Len(reviews) : ~HasQualityMarker(reviews[k].feedback)) =>
        /\ error = ""
        /\ pc # "raised"
        /\ Len(writes) <= max_revisions
        /\ Len(reviews) <= Len(writes)
        /\ LoopEnded =>
              /\ Len(writes) = max_revisions
              /\ Len(reviews) = max_revisions
        /\ pc = "stored" =>
              FinalText = writes[max_revisions].chapter_content

\* three rounds without a marker, stored with the third content, which
\* differs from the first two
C6_Witness ==
    /\ pc = "stored"
    /\ max_revisions = 3
    /\ Len(reviews) = 3
    /\ \A k \in 1..3 : ~HasQualityMarker(reviews[k].feedback)
    /\ writes[3].chapter_content \notin
          {writes[1].chapter_content, writes[2].chapter_content}
    /\ FinalText = writes[3].chapter_content

\* C7: the round whose feedback carries a quality marker, in any letter
\* case, is the last one: no write_chapter or review_chapter call follows
\* it, the loop is over, and its content is the final text.
C7_StopsAtFirstMarker ==
    \A k \in 1..Len(reviews) :
        HasQualityMarker(reviews[k].feedback) =>
            /\ k = Len(reviews)
            /\ k = Len(writes)
            /\ LoopEnded
            /\ pc = "stored" => FinalText = writes[k].chapter_content

\* accepted in round 2 of 3 on an upper-case marker
C7_Witness ==
    /\ pc = "stored"
    /\ max_revisions = 3
    /\ Len(reviews) = 2
    /\ reviews[2].feedback = <<"OUTSTANDING">>
    /\ writes[1].chapter_content # writes[2].chapter_content
    /\ FinalText = writes[2].chapter_content

\* C8: write_chapter is called without feedback in round 1 and, in every
\* round k > 1, with the feedback review_chapter returned in round k - 1.
C8_FeedbackFeedsNextRound ==
    /\ Len(reviews) <= Len(writes)
    /\ Len(writes) <= Len(reviews) + 1
    /\ \A k \in 1..Len(writes) :
          writes[k].previous_feedback =
              IF k = 1 THEN None ELSE Some(reviews[k - 1].feedback)

\* a third round written on the feedback of the second, which differs from
\* that of the first
C8_Witness ==
    /\ Len(writes) = 3
    /\ reviews[1].feedback # reviews[2].feedback
    /\ writes[3].previous_feedback = Some(reviews[2].feedback)

\* C9: when the loop has ended after n rounds, the versions are exactly
\* revision_1 .. revision_n with 1 <= n <= max_revisions, and version k holds
\* the content and the feedback of round k.
C9_EveryRoundRetained ==
    LoopEnded =>
        LET n == Len(reviews)
        IN  /\ 1 <= n
            /\ n <= max_revisions
            /\ Len(writes) = n
            /\ DOMAIN frame.chapter_versions = 1..n
            /\ \A k \in 1..n :
                  /\ frame.chapter_versions[k].content =
                        writes[k].chapter_content
                  /\ frame.chapter_versions[k].feedback = reviews[k].feedback
            /\ pc = "stored" =>
                  novel.chapters[frame.chapter_num].versions =
                      frame.chapter_versions

\* two rounds retained with different contents and feedbacks
C9_Witness ==
    /\ pc = "stored"
    /\ Len(reviews) = 2
    /\ DOMAIN novel.chapters[frame.chapter_num].versions = {1, 2}
    /\ writes[1].chapter_content # writes[2].chapter_content
    /\ reviews[1].feedback # reviews[2].feedback

(***************************************************************************)
(* Properties of outline generation                                        *)
(***************************************************************************)
\* C10: for every chapter index 1..num_chapters a call of
\* generate_chapter_outline never ends in an exception, makes at most 3
\* generation attempts, and returns the outline of the first attempt whose
\* automated review is valid, or else the outline of the third attempt.
C10_OutlineWithinThreeAttempts ==
    frame.method = "generate_chapter_outline" =>
        /\ error = ""
        /\ pc # "raised"
        /\ Len(frame.generated) <= 3
        /\ pc = "return" =>
              LET n == Len(frame.generated)
              IN  /\ n >= 1
                  /\ Len(frame.verdicts) = n
                  /\ frame.returned = Some(frame.generated[n])
                  /\ \A k \in 1..(n - 1) : ~frame.verdicts[k]
                  /\ frame.verdicts[n] \/ n = 3

(***************************************************************************)
(* Properties of the character manager                                     *)
(***************************************************************************)
\* the appearance field holds a chapter number: it is not 0
IsSet(appearance) == appearance.t # "text" /\ appearance.v # 0

\* C11: for every character of the store, in every state reached by
\* add_character, update_appearance and from_dict, once first_appearance
\* and last_appearance are both set, first_appearance <= last_appearance as
\* chapter numbers.
C11_FirstNotAfterLast ==
    \A name \in DOMAIN characters :
        LET char == characters[name]
        IN  IsSet(char.first_appearance) /\ IsSet(char.last_appearance)
                => char.first_appearance.v <= char.last_appearance.v

\* C12: update_appearance(name, chapter) on a name of the store sets
\* first_appearance to chapter only if it was unset (0) and always sets
\* last_appearance to chapter, leaving every other character alone; on a
\* name that is not in the store it changes nothing.
C12_UpdateAppearance ==
    [][call'.op = "update_appearance" =>
          LET key == lower(call'.name)
              chapter == call'.chapter
          IN  /\ DOMAIN characters' = DOMAIN characters
              /\ mentions' = mentions
              /\ \A k \in DOMAIN characters \ {key} :
                     characters'[k] = characters[k]
              /\ key \in DOMAIN characters =>
                     /\ characters'[key].name = characters[key].name
                     /\ characters'[key].last_appearance = chapter
                     /\ characters'[key].first_appearance =
                            IF characters[key].first_appearance = IntValue(0)
                            THEN chapter
                            ELSE characters[key].first_appearance]_vars

\* an update that moved last_appearance past a first_appearance set earlier
C12_Witness ==
    /\ call.op = "update_appearance"
    /\ call.name = "ANN"
    /\ "ann" \in DOMAIN characters
    /\ characters["ann"].last_appearance = call.chapter
    /\ characters["ann"].first_appearance.v < call.chapter.v
    /\ IsSet(characters["ann"].first_appearance)

C14_NamesUniqueIgnoringCase ==
    [][/\ \A k1, k2 \in DOMAIN characters' :
              lower(characters'[k1].name) = lower(characters'[k2].name)
                  => k1 = k2
       /\ call'.op = "add_character" =>
              /\ \A k \in DOMAIN characters' :
                     \/ lower(characters'[k].name) = lower(call'.name)
                     \/ k \in DOMAIN characters
                        /\ characters'[k] = characters[k]
              /\ \A k \in DOMAIN characters :
                     \/ lower(characters[k].name) = lower(call'.name)
                     \/ k \in DOMAIN characters'
              /\ \E k \in DOMAIN characters' :
                     characters'[k].name = call'.name
       /\ call'.op = "get_character" =>
              LET held == {k \in DOMAIN characters :
                              lower(characters[k].name) = lower(call'.name)}
              IN  /\ characters' = characters
                  /\ call'.result.none <=> held = {}
                  /\ ~call'.result.none =>
                         \E k \in held :
                             call'.result.character = characters[k]]_vars

\* the entry stored as Ann found under the name ANN
C14_Witness ==
    /\ call.op = "get_character"
    /\ call.name = "ANN"
    /\ ~call.result.none
    /\ call.result.character.name = "Ann"
    /\ Cardinality(DOMAIN characters) = 2

\* C16: other.from_dict(store.to_dict()) leaves in other the character
\* mapping and the mention table of store, and nothing of what other held.
C16_RoundTrip ==
    [][call'.op = "from_dict" =>
          /\ characters' = call'.arg.store.characters
          /\ mentions' = call'.arg.store.mentions]_vars

\* a store with two characters reloaded from a store with one character
\* and a mention
C16_Witness ==
    /\ call.op = "from_dict"
    /\ DOMAIN call.arg.self.characters = {"ann", "bob"}
    /\ DOMAIN characters = {"ann"}
    /\ call.arg.self.mentions = <<>>
    /\ mentions # <<>>

(***************************************************************************)
(* Properties of the scan of a chapter text                                *)
(***************************************************************************)
\* the name occurs in the text, ignoring case
NameOccurs(name, content) ==
    \E i \in 1..Len(content) : Substring(lower(name), lower(content[i]))

HasCount(ment, chapter, key) ==
    chapter \in DOMAIN ment /\ key \in DOMAIN ment[chapter]

MentionCount(ment, chapter, key) ==
    IF HasCount(ment, chapter, key) THEN ment[chapter][key] ELSE 0

\* C15: one scan of a chapter text with chapter index C does, for every
\* character of the store whose name occurs in the text ignoring case, one
\* update_appearance and one increment by 1 of its count in the bucket of C
\* (created if absent), however often the name occurs; a character whose
\* name does not occur keeps its appearance fields and its counts; no other
\* bucket changes.
C15_ScanCountsOncePerCharacter ==
    [][call'.op = "_update_character_appearances" =>
          LET content == call'.arg
              chapter == call'.chapter
          IN  /\ DOMAIN characters' = DOMAIN characters
              /\ \A ch \in DOMAIN mentions : ch \in DOMAIN mentions'
              /\ \A ch \in DOMAIN mentions' \ {chapter} :
                     ch \in DOMAIN mentions /\ mentions'[ch] = mentions[ch]
              /\ \A key \in DOMAIN characters :
                     IF NameOccurs(characters[key].name, content)
                     THEN /\ characters'[key].last_appearance = chapter
                          /\ characters'[key].first_appearance =
                                 IF characters[key].first_appearance = IntValue(0)
                                 THEN chapter
                                 ELSE characters[key].first_appearance
                          /\ HasCount(mentions', chapter, key)
                          /\ mentions'[chapter][key] =
                                 MentionCount(mentions, chapter, key) + 1
                     ELSE /\ characters'[key] = characters[key]
                          /\ HasCount(mentions', chapter, key)
                                 <=> HasCount(mentions, chapter, key)
                          /\ MentionCount(mentions', chapter, key) =
                                 MentionCount(mentions, chapter, key)]_vars

\* a text that holds the name of Ann twice scanned a second time for the
\* same chapter: the count of Ann is 2, one for each scan
C15_Witness ==
    /\ call.op = "_update_character_appearances"
    /\ call.arg = <<"Ann", "Bob", "ANN">>
    /\ DOMAIN characters = {"ann"}
    /\ HasCount(mentions, call.chapter, "ann")
    /\ mentions[call.chapter]["ann"] = 2
    /\ DOMAIN mentions = {call.chapter}

(***************************************************************************)
(* Properties of extract_title                                             *)
(***************************************************************************)
\* the rules in the order of their priority
RulesByPriority == <<"quoted Title:", "Title:", "Chapter N:", "#">>

\* C17: extract_title returns the stripped capture of the first of the rules
\* quoted Title:, unquoted Title:, Chapter N: heading, # heading that matches
\* the text, whatever rules of lower priority match as well; the text
\* Title: "The Storm" gives The Storm; a text no rule matches gives the
\* empty string.
C17_FirstRuleWins ==
    call.op = "extract_title" =>
        LET text == call.outline
            matching == {n \in 1..Len(RulesByPriority) :
                            search(RulesByPriority[n], text).found}
        IN  /\ matching = {} => call.result = <<>>
            /\ matching # {} =>
                   LET first == CHOOSE n \in matching :
                                    \A other \in matching : n <= other
                   IN  call.result =
                           strip(search(RulesByPriority[first], text).group)
            /\ text = <<TITLE, QUOTE, "Storm", QUOTE>>
                   => call.result = <<"Storm">>
            /\ text = StormOutline => call.result = <<"The", "Storm">>

\* a text that the quoted rule, the unquoted rule and the # rule all match,
\* with three different captures
C17_Witness ==
    /\ call.op = "extract_title"
    /\ call.outline = <<HASH, TITLE, QUOTE, "Storm">> \o <<QUOTE>>
    /\ call.result = <<"Storm">>
    /\ search("Title:", call.outline).group = <<QUOTE, "Storm", QUOTE>>
    /\ search("#", call.outline).found

(***************************************************************************)
(* Properties of the pipeline                                              *)
(***************************************************************************)
\* the step belongs to the running process: it is no restart
SameProcess == run'.restarted = run.restarted

\* the run was started after a first run had returned from write_novel
SecondRunAfterCompletion == run.restarted /\ run.previous = "done"

\* C18: a run started after a first run completed makes no generation call
\* for character extraction and none for outlines: the character store is
\* loaded from the character file; in every run a chapter whose outline
\* file exists has its outline loaded and registered with
\* add_existing_outline instead of generated; and an outline that was
\* generated is in its file before the pipeline goes on.
C18_SecondRunGeneratesNothing ==
    [][/\ SecondRunAfterCompletion' =>
              /\ run'.extractions = 0
              /\ run'.generations = 0
              /\ frame'.method # "generate_chapter_outline"
              /\ frame'.generated = <<>>
       /\ SecondRunAfterCompletion /\ run.pc = "initialize_characters"
             /\ SameProcess =>
              /\ ~character_file.none
              /\ to_dict(characters', mentions') = character_file.text
              /\ character_file' = character_file
       /\ run.pc = "outline" /\ pc = "idle" /\ SameProcess
             /\ run.chapter_num \in DOMAIN outline_files =>
              /\ call' = [op |-> "add_existing_outline",
                          outline |-> outline_files[run.chapter_num],
                          chapter_num |-> run.chapter_num]
              /\ outlines'[run.chapter_num] = outline_files[run.chapter_num]
              /\ pc' = "idle"
              /\ outline_files' = outline_files
       /\ frame.method = "generate_chapter_outline" /\ pc = "return"
             /\ SameProcess =>
              /\ run.chapter_num \in DOMAIN outline_files'
              /\ outline_files'[run.chapter_num] = frame.returned.text
       /\ \A c \in 1..(run'.chapter_num - 1) : c \in DOMAIN outline_files'
       /\ run'.pc \in {"draft", "done"} =>
              run'.chapter_num \in DOMAIN outline_files']_vars

\* the end of a second run that found the outline file the first run wrote
\* for the outline it had generated
C18_Witness ==
    /\ SecondRunAfterCompletion
    /\ run.pc = "done"
    /\ outline_files[num_chapters] # ExistingOutline(num_chapters)
    /\ outlines = outline_files
    /\ to_dict(characters, mentions).characters = character_file.text.characters

\* C19: once a chapter is complete (its record is stored and the progress
\* file written) the character file holds the store as it is in memory,
\* appearance spans and mention table included, so that a restarted run
\* reloads that state.
C19_RegistryFileFollowsStore ==
    run.pc \in {"outline", "draft", "done"} /\ pc \in {"idle", "stored"} =>
        /\ ~character_file.none
        /\ character_file.text = to_dict(characters, mentions)

\* the rounds of write_chapter_with_revisions made for the chapter by the
\* running process
RoundsOf(chapter_num) ==
    {i \in 1..Len(reviews) : writes[i].chapter_num = chapter_num}

\* the novel holds the record of the chapter with every round the process
\* made for it and the content of the last one as final text, and the
\* progress file holds the novel
Committed(chapter_num) ==
    /\ chapter_num \in DOMAIN novel.chapters
    /\ LET record == novel.chapters[chapter_num]
           rounds == RoundsOf(chapter_num)
       IN  /\ rounds # {}
           /\ Cardinality(DOMAIN record.versions) = Cardinality(rounds)
           /\ \A i \in rounds :
                  \E k \in DOMAIN record.versions :
                      /\ record.versions[k].content = writes[i].chapter_content
                      /\ record.versions[k].feedback = reviews[i].feedback
           /\ \E last \in rounds :
                  /\ \A i \in rounds : i <= last
                  /\ record.final_version = writes[last].chapter_content
    /\ ~progress_file.none
    /\ chapter_num \in DOMAIN progress_file.text.chapters
    /\ progress_file.text.chapters[chapter_num] = novel.chapters[chapter_num]

\* C20: within a run the chapter index only moves from C to C + 1, and the
\* drafting of a chapter starts only when the records of all chapters
\* before it, with all their revisions and their final text, are in the
\* novel and the novel is in the progress file.
C20_DraftingAfterCommit ==
    [][SameProcess =>
          /\ run'.chapter_num \in {run.chapter_num, run.chapter_num + 1}
          /\ frame'.method = "write_chapter_with_revisions" =>
                 /\ frame'.chapter_num = run'.chapter_num
                 /\ \A c \in 1..(frame'.chapter_num - 1) : Committed(c)']_vars

\* the drafting of chapter 2 has started and chapter 1 is committed with
\* two revisions
C20_Witness ==
    /\ frame.method = "write_chapter_with_revisions"
    /\ pc = "write_chapter"
    /\ frame.chapter_num = 2
    /\ Committed(1)
    /\ DOMAIN novel.chapters[1].versions = {1, 2}
    /\ progress_file.text = novel

\* C21: a run restarted after chapters 1..k were completed and persisted
\* does not draft them again, and their records are in the novel it returns
\* and in the progress file it leaves.
C21_ResumesAfterCompleted ==
    run.restarted =>
        /\ \A i \in 1..Len(writes) : writes[i].chapter_num \notin run.completed
        /\ run.pc = "done" =>
               /\ run.completed \subseteq DOMAIN novel.chapters
               /\ ~progress_file.none =>
                      run.completed \subseteq DOMAIN progress_file.text.chapters

\* an entry with every required field and a name
WellFormed(char_data) ==
    /\ char_data.keys = RequiredKeys
    /\ char_data.name # ""

\* C22: during extraction a malformed entry never aborts the run: it is
\* skipped, every well-formed entry of the batch is added, and the registry
\* is written to its file before the first chapter.
C22_MalformedEntrySkipped ==
    [][call'.op = "initialize_characters" /\ call' # call =>
          /\ error' = ""
          /\ ~character_file'.none
          /\ character_file'.text = to_dict(characters', mentions')
          /\ \A i \in 1..Len(call'.response) :
                 WellFormed(call'.response[i]) =>
                     lower(call'.response[i].name) \in DOMAIN characters'
          /\ run'.pc = "outline"]_vars

\* the text has no term: it is empty or holds only stop words and tokens
\* that are not alphabetic
TermLess(text) == build_analyzer(_preprocess(text)) = <<>>

\* the calls of _calculate_similarity recorded in the state
SimilarityCalls ==
    IF call.op = "_calculate_similarity" THEN DOMAIN call.results ELSE {}

\* C23: similarity(a, b) is defined for every pair of texts, and is 0, not
\* an error, when either text is empty or has only stop words and
\* non-alphabetic tokens.
C23_DefinedForEveryPair ==
    \A i \in SimilarityCalls :
        /\ call.results[i].error = ""
        /\ TermLess(call.text1) \/ TermLess(call.text2) =>
               call.results[i].num = 0

C25_FinalTextScannedOnce ==
    pc = "stored" =>
        LET chapter == StrValue(frame.chapter_num)
            final == novel.chapters[frame.chapter_num].final_version
        IN  \A key \in DOMAIN characters :
                IF NameOccurs(characters[key].name, final)
                THEN MentionCount(mentions, chapter, key) = 1
                ELSE ~HasCount(mentions, chapter, key)

\* C26: every retry of the outline generation is driven by the review of the
\* attempt before it: the chat that the request of attempt k > 1 is sent to,
\* and that the outline of attempt k is read from, holds the message with
\* the issues of attempt k - 1.
C26_RetryCarriesIssues ==
    pc = "review_outline" /\ frame.attempt > 0 =>
        \E i \in 1..Len(frame.messages) : frame.messages[i] = "issues"

\* C27: when write_novel returns, the novel holds for every chapter a record
\* with its outline, its revisions and a final text that is the content of
\* the last revision, so that main can read the final text of every chapter.
C27_EveryChapterRecorded ==
    run.pc = "done" =>
        \A c \in Chapters :
            /\ c \in DOMAIN novel.chapters
            /\ LET record == novel.chapters[c]
                   n == Cardinality(DOMAIN record.versions)
               IN  /\ c \in DOMAIN outline_files
                   /\ record.outline = outline_files[c]
                   /\ n >= 1
                   /\ DOMAIN record.versions = 1..n
                   /\ record.final_version = record.versions[n].content

\* C28: get_character_context(chapter_num) never fails for a store built by
\* extraction, add_character and chapter scans, and keeps exactly the
\* characters whose last_appearance is unset or >= chapter_num - 2.
C28_ContextOfRecentCharacters ==
    call.op = "get_character_context" =>
        /\ call.result.error = ""
        /\ call.result.relevant_chars =
              {k \in DOMAIN characters :
                  LET last == characters[k].last_appearance
                  IN  \/ ~Truthy(last)
                      \/ last.t # "text" /\ last.v >= call.arg - 2}

Distinct(a, b) ==
    /\ ~MoreThanSeventyPercent(a, b)
    /\ LowerText(TitleOf[a]) # LowerText(TitleOf[b])

\* C30 as stated: in every reachable state of the reviewer the outlines
\* stored for two distinct chapters have similarity at most 0.70 and titles
\* that differ ignoring case.
C30_StoredOutlinesPairwiseDistinct ==
    \A c, d \in DOMAIN outlines : c # d => Distinct(outlines[c], outlines[d])

\* C30: an outline that review_outline accepts is, when it is stored, at
\* most 0.70 similar to the outline stored for every other chapter, and its
\* title, if it has one, differs ignoring case from the title of each of
\* them; outlines registered by add_existing_outline are not compared.
C30_AcceptedOutlineDistinct ==
    [][(ReviewReturned /\ review'.is_valid) =>
          LET o == call'.outline
          IN  /\ outlines'[call'.chapter_num] = o
              /\ \A d \in DOMAIN outlines' \ {call'.chapter_num} :
                     /\ ~MoreThanSeventyPercent(o, outlines'[d])
                     /\ TitleOf[o] # <<>> =>
                            LowerText(TitleOf[o]) #
                                LowerText(TitleOf[outlines'[d]])]_vars

\* a titled outline accepted for chapter 3 while chapters 1 and 2 hold the
\* same outline, registered by add_existing_outline
C30_Witness ==
    /\ call.op = "review_outline"
    /\ call.chapter_num = 3
    /\ review.error = ""
    /\ review.is_valid
    /\ DOMAIN outlines = {1, 2, 3}
    /\ outlines[3] = call.outline
    /\ TitleOf[call.outline] # <<>>
    /\ outlines[1] = outlines[2]
    /\ HasTerms(outlines[1])

\* C31: in every reachable state of the reviewer the title set is exactly the
\* set of the non-empty titles of the outlines currently stored: the title
\* of an outline that has been overwritten is no longer registered.
C31_TitlesOfStoredOutlines ==
    titles = {TitleOf[outlines[c]] : c \in DOMAIN outlines} \ {<<>>}

====
